---- MODULE Spec2Model ----
(***************************************************************************)
(* Model of the LSH index of lsh-rs (src/lsh-rs/src/lsh.rs) and of its     *)
(* Python binding (src/lsh-py/src/lib.rs).                                 *)
(*                                                                         *)
(* The index is a value of the record type LSH; every method of the index  *)
(* is an operator from an index value (and its arguments) to the new index *)
(* value and an outcome, and every action applies one method.  The hash    *)
(* families (crate::hash), the in-memory table (crate::table) and the      *)
(* random generator (crate::utils) are not part of the sources at hand;    *)
(* they are modelled after their description, over small integers.        *)
(***************************************************************************)
EXTENDS Integers, Sequences, FiniteSets, TLC

VARIABLES
    lsh,      \* the LSH index under test (struct LSH, lsh.rs:7-14)
    H,        \* its type parameter H: VecHash, "srp" | "l2" | "mips"
    twin,     \* a second index built alongside lsh (paired runs only)
    base,     \* the binding's Base.lsh: "None" (core used directly),
              \* "Empty", "L2", "Mips" or "Srp"
    storage,  \* "sound": no storage call fails in this run; "failing": the
              \* storage call of one table may fail in each call
    status,   \* "running" | "panicked" (the process aborted)
    last,     \* the last call: its name, argument, outcome and result
    live,     \* vectors stored into the bound index by a completed call
              \* and not deleted since
    nstored   \* per vector, the number of times it was stored into it

vars == <<lsh, H, twin, base, storage, status, last, live, nstored>>

---------------------------------------------------------------------------
(* Bounds of the model *)

MaxTables == 2      \* n_hash_tables ranges over 1..MaxTables
MaxStores == 2      \* at most MaxStores vectors are stored into an index

Dims == {2}          \* the dim tried
Families == {"srp", "l2", "mips"}
Projs == {1, 2}      \* the n_projections tried
Seeds == {0, 1}      \* the index seeds tried; 0 asks for entropy
Entropy == {2, 3}    \* the states a generator seeded from entropy may start in
\* the vectors presented to the index: three of length 2, one longer
GoodVecs == {<<1, 1>>, <<-1, 1>>, <<2, -1>>}
BadVecs == {<<1, 1, 1>>}
Vecs == GoodVecs \cup BadVecs
Rs == {2}           \* bucket widths r
Us == {1}           \* MIPS norm bound U (scaled)
Ms == {1}           \* MIPS extra terms m

---------------------------------------------------------------------------
(* crate::utils::create_rng and rand::Rng::gen *)

\* the k-th state of the generator seeded with seed (k >= 0)
RECURSIVE RngState(_, _)
RngState(seed, k) ==
    IF k = 0 THEN seed
    ELSE (RngState(seed, k - 1) * 3 + 2 * k + 1) % 7

\* the k-th u64 drawn from a generator started in state seed
Gen(seed, k) == RngState(seed, k) + 1

\* the k-th standard-normal sample of a generator, rounded to -1, 0 or 1
Normal(seed, k) == ((RngState(seed, k) + k) % 3) - 1

---------------------------------------------------------------------------
(* crate::hash: the hash families.  A hasher holds what its constructor     *)
(* sampled from its seed; hashing is a pure function of vector and hasher. *)

RECURSIVE DotFrom(_, _, _)
DotFrom(a, v, i) == IF i > Len(v) THEN 0 ELSE a[i] * v[i] + DotFrom(a, v, i + 1)
Dot(a, v) == DotFrom(a, v, 1)

\* a k x dim matrix of normal samples, row by row from one generator
SampleMatrix(k, dim, sd) ==
    [p \in 1 .. k |-> [j \in 1 .. dim |-> Normal(sd, (p - 1) * dim + j)]]

\* SignRandomProjections::new(k, dim, seed)
SignRandomProjections_new(k, dim, sd) ==
    [kind |-> "srp", dim |-> dim, hyperplanes |-> SampleMatrix(k, dim, sd)]

\* L2::new(dim, r, n_projections, seed): a is normal, b uniform in [0, r)
L2_new(dim, r, k, sd) ==
    [kind |-> "l2", dim |-> dim, r |-> r,
     a |-> SampleMatrix(k, dim, sd),
     b |-> [p \in 1 .. k |-> RngState(sd, k * dim + p) % r]]

\* MIPS::new(dim, r, U, m, n_projections, seed): an L2 hasher over dim + m
MIPS_new(dim, r, U, m, k, sd) ==
    [kind |-> "mips", dim |-> dim, U |-> U, m |-> m,
     hasher |-> L2_new(dim + m, r, k, sd)]

\* sign of each projection
SRP_hash_vec(h, v) ==
    [p \in 1 .. Len(h.hyperplanes) |->
        IF Dot(h.hyperplanes[p], v) > 0 THEN 1 ELSE 0]

\* h(v) = floor((a.v + b) / r), one integer per projection
L2_hash_vec(h, v) ==
    [p \in 1 .. Len(h.a) |-> (Dot(h.a[p], v) + h.b[p]) \div h.r]

RECURSIVE Pow(_, _)
Pow(x, n) == IF n = 0 THEN 1 ELSE x * Pow(x, n - 1)

\* the storage-side embedding: U * x followed by m powers of its squared norm
MIPS_transform_put(h, x) ==
    LET ux == [j \in 1 .. Len(x) |-> h.U * x[j]]
        nsq == Dot(ux, ux)
    IN ux \o [o \in 1 .. h.m |-> Pow(nsq, o)]

\* the query-side embedding: the query followed by m constant terms
MIPS_transform_query(h, x) == x \o [o \in 1 .. h.m |-> 1]

\* VecHash::hash_vec_query
hash_vec_query(h, v) ==
    CASE h.kind = "srp" -> SRP_hash_vec(h, v)
      [] h.kind = "l2" -> L2_hash_vec(h, v)
      [] h.kind = "mips" -> L2_hash_vec(h.hasher, MIPS_transform_query(h, v))

\* VecHash::hash_vec_put: the query hash unless the family is asymmetric
hash_vec_put(h, v) ==
    CASE h.kind = "srp" -> SRP_hash_vec(h, v)
      [] h.kind = "l2" -> L2_hash_vec(h, v)
      [] h.kind = "mips" -> L2_hash_vec(h.hasher, MIPS_transform_put(h, v))

\* hashing is defined on vectors of the hasher's dimension only; on any
\* other length the projection product aborts
hash_defined(h, v) == Len(v) = h.dim

---------------------------------------------------------------------------
(* crate::table: MemoryTable, one map from signature to bucket per table   *)
(* and one shared vector store.  Point indices count from 0.  A durable    *)
(* table differs in that a call may fail with HashTableError::Failed,      *)
(* which the argument fault stands for.                                    *)

Ok(val) == [ok |-> TRUE, err |-> "", val |-> val]
Err(kind, val) == [ok |-> FALSE, err |-> kind, val |-> val]

MemoryTable_new(n_hash_tables) ==
    [hash_tables |-> [i \in 1 .. n_hash_tables |-> <<>>],
     n_hash_tables |-> n_hash_tables,
     vec_store |-> <<>>]

\* HashTables::put: appends d to the vector store and inserts its index
\* into the bucket of hash in table i; val is the table afterwards
put(ht, hash, d, i, fault) ==
    IF fault THEN Err("Failed", ht)
    ELSE LET idx == Len(ht.vec_store)
             tbl == ht.hash_tables[i]
             bucket == IF hash \in DOMAIN tbl THEN tbl[hash] ELSE {}
             tbl2 == [s \in DOMAIN tbl \cup {hash} |->
                         IF s = hash THEN bucket \cup {idx} ELSE tbl[s]]
         IN Ok([ht EXCEPT !.hash_tables[i] = tbl2,
                          !.vec_store = Append(@, d)])

\* VecStore::position: the first index holding a vector equal to d, or -1
position(vec_store, d) ==
    LET at == {k \in 1 .. Len(vec_store) : vec_store[k] = d}
    IN IF at = {} THEN -1
       ELSE (CHOOSE k \in at : \A j \in at : k <= j) - 1

\* HashTables::delete: removes the index of d from the bucket of hash
delete(ht, hash, d, i, fault) ==
    IF fault THEN Err("Failed", ht)
    ELSE LET idx == position(ht.vec_store, d)
             tbl == ht.hash_tables[i]
         IN IF idx = -1 THEN Ok(ht)
            ELSE IF hash \notin DOMAIN tbl THEN Err("NotFound", ht)
            ELSE Ok([ht EXCEPT !.hash_tables[i][hash] = @ \ {idx}])

\* HashTables::query_bucket: the bucket of hash in table i, or NotFound
table_query_bucket(ht, hash, i, fault) ==
    IF fault THEN Err("Failed", {})
    ELSE IF hash \in DOMAIN ht.hash_tables[i] THEN Ok(ht.hash_tables[i][hash])
    ELSE Err("NotFound", {})

\* HashTables::idx_to_datapoint
idx_to_datapoint(ht, idx) == ht.vec_store[idx + 1]

\* HashTables::increase_storage: reserves capacity, contents unchanged
increase_storage(ht, size) == ht

---------------------------------------------------------------------------
(* src/lsh-rs/src/lsh.rs: struct LSH and its methods.  A method that takes *)
(* &mut self yields a record [lsh, outcome, val]: the index afterwards,    *)
(* "ok" or "panic", and the value returned.  Tables are numbered from 1    *)
(* here and from 0 in the source.                                          *)

Done(self, val) == [lsh |-> self, outcome |-> "ok", val |-> val]
Panic(self, msg) == [lsh |-> self, outcome |-> "panic", val |-> msg]

\* create_rng(seed): the seeds the generator may start from; 0 asks for
\* entropy, any other seed is used as given
create_rng(sd) == IF sd = 0 THEN Entropy ELSE {sd}

\* LSH::new
new(n_projections, n_hash_tables, dim) ==
    [n_hash_tables |-> n_hash_tables,
     n_projections |-> n_projections,
     hashers |-> <<>>,
     dim |-> dim,
     hash_tables |-> MemoryTable_new(n_hash_tables),
     _seed |-> 0]

\* seed sampling the hashers of the index anew from the seed it is given
seed_resampling(self, sd) ==
    [self EXCEPT
        !._seed = sd,
        !.hashers =
            [i \in 1 .. Len(self.hashers) |->
                LET h == self.hashers[i]
                IN CASE h.kind = "srp" ->
                            SignRandomProjections_new(self.n_projections, self.dim,
                                                      Gen(sd, i))
                     [] h.kind = "l2" ->
                            L2_new(self.dim, h.r, self.n_projections, Gen(sd, i))
                     [] h.kind = "mips" ->
                            MIPS_new(self.dim, h.hasher.r, h.U, h.m,
                                     self.n_projections, Gen(sd, i))]]

\* LSH::seed
seed(self, sd) == [self EXCEPT !._seed = sd]

\* srp with the draws handed to the tables last to first
srp_reversed(self, rng) ==
    [n_hash_tables |-> self.n_hash_tables,
     n_projections |-> self.n_projections,
     hashers |-> [i \in 1 .. self.n_hash_tables |->
                    SignRandomProjections_new(self.n_projections, self.dim,
                                              Gen(rng, self.n_hash_tables + 1 - i))],
     dim |-> self.dim,
     hash_tables |-> MemoryTable_new(self.n_hash_tables),
     _seed |-> self._seed]

\* LSH::srp; rng is the state create_rng(self._seed) starts from
srp(self, rng) ==
    [n_hash_tables |-> self.n_hash_tables,
     n_projections |-> self.n_projections,
     hashers |-> [i \in 1 .. self.n_hash_tables |->
                    SignRandomProjections_new(self.n_projections, self.dim,
                                              Gen(rng, i))],
     dim |-> self.dim,
     hash_tables |-> MemoryTable_new(self.n_hash_tables),
     _seed |-> self._seed]

\* l2 with dim and n_projections handed to L2::new in each other's place
l2_swapped(self, r, rng) ==
    [n_hash_tables |-> self.n_hash_tables,
     n_projections |-> self.n_projections,
     hashers |-> [i \in 1 .. self.n_hash_tables |->
                    L2_new(self.n_projections, r, self.dim, Gen(rng, i))],
     dim |-> self.dim,
     hash_tables |-> MemoryTable_new(self.n_hash_tables),
     _seed |-> self._seed]

\* LSH::l2
l2(self, r, rng) ==
    [n_hash_tables |-> self.n_hash_tables,
     n_projections |-> self.n_projections,
     hashers |-> [i \in 1 .. self.n_hash_tables |->
                    L2_new(self.dim, r, self.n_projections, Gen(rng, i))],
     dim |-> self.dim,
     hash_tables |-> MemoryTable_new(self.n_hash_tables),
     _seed |-> self._seed]

\* mips handing the tables of the receiver on to the index it returns
mips_keeping_tables(self, r, U, m, rng) ==
    [n_hash_tables |-> self.n_hash_tables,
     n_projections |-> self.n_projections,
     hashers |-> [i \in 1 .. self.n_hash_tables |->
                    MIPS_new(self.dim, r, U, m, self.n_projections, Gen(rng, i))],
     dim |-> self.dim,
     hash_tables |-> self.hash_tables,
     _seed |-> self._seed]

\* LSH::mips
mips(self, r, U, m, rng) ==
    [n_hash_tables |-> self.n_hash_tables,
     n_projections |-> self.n_projections,
     hashers |-> [i \in 1 .. self.n_hash_tables |->
                    MIPS_new(self.dim, r, U, m, self.n_projections, Gen(rng, i))],
     dim |-> self.dim,
     hash_tables |-> MemoryTable_new(self.n_hash_tables),
     _seed |-> self._seed]

\* the loop of LSH::store_vec from table i on; the put of table fault fails
RECURSIVE store_vec_from(_, _, _, _)
store_vec_from(self, v, i, fault) ==
    IF i > Len(self.hashers) THEN Done(self, "unit")
    ELSE IF ~hash_defined(self.hashers[i], v) THEN Panic(self, "hash")
    ELSE LET hash == hash_vec_put(self.hashers[i], v)
             r == put(self.hash_tables, hash, v, i, fault = i)
         IN IF r.ok
            THEN store_vec_from([self EXCEPT !.hash_tables = r.val], v, i + 1, fault)
            ELSE Panic(self, "Could not store vec")

\* LSH::store_vec
store_vec(self, v, fault) == store_vec_from(self, v, 1, fault)

\* the loop of store_vecs taking the elements last to first
RECURSIVE store_vecs_from_reversed(_, _, _, _)
store_vecs_from_reversed(self, vs, j, fault) ==
    IF j > Len(vs) THEN Done(self, "unit")
    ELSE LET r == store_vec(self, vs[Len(vs) + 1 - j], fault)
         IN IF r.outcome = "ok" THEN store_vecs_from_reversed(r.lsh, vs, j + 1, fault)
            ELSE r

\* the loop of LSH::store_vecs from element j on
RECURSIVE store_vecs_from(_, _, _, _)
store_vecs_from(self, vs, j, fault) ==
    IF j > Len(vs) THEN Done(self, "unit")
    ELSE LET r == store_vec(self, vs[j], fault)
         IN IF r.outcome = "ok" THEN store_vecs_from(r.lsh, vs, j + 1, fault)
            ELSE r

\* LSH::store_vecs
store_vecs(self, vs, fault) ==
    store_vecs_from(
        [self EXCEPT !.hash_tables = increase_storage(@, Len(vs))], vs, 1, fault)

\* the loop of LSH::query_bucket from table i on, bucket_union so far
RECURSIVE bucket_union_from(_, _, _, _, _)
bucket_union_from(self, v, i, bucket_union, fault) ==
    IF i > Len(self.hashers) THEN Done(self, bucket_union)
    ELSE IF ~hash_defined(self.hashers[i], v) THEN Panic(self, "hash")
    ELSE LET hash == hash_vec_query(self.hashers[i], v)
             r == table_query_bucket(self.hash_tables, hash, i, fault = i)
         IN IF r.ok
            THEN bucket_union_from(self, v, i + 1, bucket_union \cup r.val, fault)
            ELSE IF r.err = "NotFound"
            THEN bucket_union_from(self, v, i + 1, bucket_union, fault)
            ELSE Panic(self, "Unexpected query result")

\* query_bucket with the buckets intersected instead of united
RECURSIVE bucket_intersection_from(_, _, _, _, _)
bucket_intersection_from(self, v, i, bucket_union, fault) ==
    IF i > Len(self.hashers) THEN Done(self, bucket_union)
    ELSE IF ~hash_defined(self.hashers[i], v) THEN Panic(self, "hash")
    ELSE LET hash == hash_vec_query(self.hashers[i], v)
             r == table_query_bucket(self.hash_tables, hash, i, fault = i)
         IN IF r.ok
            THEN bucket_intersection_from(self, v, i + 1, bucket_union \cap r.val, fault)
            ELSE IF r.err = "NotFound"
            THEN bucket_intersection_from(self, v, i + 1, bucket_union, fault)
            ELSE Panic(self, "Unexpected query result")

query_bucket_idx_intersect(self, v, fault) ==
    bucket_intersection_from(self, v, 1, {}, fault)

\* query_bucket with NotFound falling into the arm of the unexpected errors
RECURSIVE bucket_union_strict_from(_, _, _, _, _)
bucket_union_strict_from(self, v, i, bucket_union, fault) ==
    IF i > Len(self.hashers) THEN Done(self, bucket_union)
    ELSE IF ~hash_defined(self.hashers[i], v) THEN Panic(self, "hash")
    ELSE LET hash == hash_vec_query(self.hashers[i], v)
             r == table_query_bucket(self.hash_tables, hash, i, fault = i)
         IN IF r.ok
            THEN bucket_union_strict_from(self, v, i + 1, bucket_union \cup r.val, fault)
            ELSE Panic(self, "Unexpected query result")

query_bucket_idx_strict(self, v, fault) ==
    bucket_union_strict_from(self, v, 1, {}, fault)

\* query_bucket creating the bucket it does not find (entry().or_insert)
RECURSIVE bucket_union_insert_from(_, _, _, _, _)
bucket_union_insert_from(self, v, i, bucket_union, fault) ==
    IF i > Len(self.hashers) THEN Done(self, bucket_union)
    ELSE IF ~hash_defined(self.hashers[i], v) THEN Panic(self, "hash")
    ELSE LET hash == hash_vec_query(self.hashers[i], v)
             r == table_query_bucket(self.hash_tables, hash, i, fault = i)
             tbl == self.hash_tables.hash_tables[i]
             made == [s \in DOMAIN tbl \cup {hash} |->
                         IF s \in DOMAIN tbl THEN tbl[s] ELSE {}]
         IN IF r.ok
            THEN bucket_union_insert_from(self, v, i + 1, bucket_union \cup r.val, fault)
            ELSE IF r.err = "NotFound"
            THEN bucket_union_insert_from(
                     [self EXCEPT !.hash_tables.hash_tables[i] = made],
                     v, i + 1, bucket_union, fault)
            ELSE Panic(self, "Unexpected query result")

query_bucket_idx_insert(self, v, fault) ==
    bucket_union_insert_from(self, v, 1, {}, fault)

\* LSH::query_bucket up to the resolution of the indices: val is the set
\* of global indices in the union of the matching buckets
query_bucket_idx(self, v, fault) == bucket_union_from(self, v, 1, {}, fault)

\* LSH::query_bucket: val is the resolved vectors, one per index, as the
\* function from each index of the union to its data point
query_bucket(self, v, fault) ==
    LET u == query_bucket_idx(self, v, fault)
    IN IF u.outcome = "ok"
       THEN Done(u.lsh, [idx \in u.val |->
                             idx_to_datapoint(u.lsh.hash_tables, idx)])
       ELSE u

\* the loop of delete_vec emptying the bucket it finds for v
RECURSIVE delete_vec_from_whole_bucket(_, _, _, _)
delete_vec_from_whole_bucket(self, v, i, fault) ==
    IF i > Len(self.hashers) THEN Done(self, "unit")
    ELSE IF ~hash_defined(self.hashers[i], v) THEN Panic(self, "hash")
    ELSE LET hash == hash_vec_query(self.hashers[i], v)
             tbl == self.hash_tables.hash_tables[i]
             cleared == [s \in DOMAIN tbl |-> IF s = hash THEN {} ELSE tbl[s]]
         IN delete_vec_from_whole_bucket(
                [self EXCEPT !.hash_tables.hash_tables[i] = cleared], v, i + 1, fault)

\* the loop of LSH::delete_vec from table i on
RECURSIVE delete_vec_from(_, _, _, _)
delete_vec_from(self, v, i, fault) ==
    IF i > Len(self.hashers) THEN Done(self, "unit")
    ELSE IF ~hash_defined(self.hashers[i], v) THEN Panic(self, "hash")
    ELSE LET hash == hash_vec_query(self.hashers[i], v)
             r == delete(self.hash_tables, hash, v, i, fault = i)
             \* unwrap_or_default: an error is dropped
             ht == IF r.ok THEN r.val ELSE self.hash_tables
         IN delete_vec_from([self EXCEPT !.hash_tables = ht], v, i + 1, fault)

\* LSH::delete_vec
delete_vec(self, v, fault) == delete_vec_from(self, v, 1, fault)

\* the vectors a query result holds
Range(f) == {f[x] : x \in DOMAIN f}

---------------------------------------------------------------------------
(* lsh_rs::LshSql: the index over the durable table that the binding     *)
(* holds.  It runs the algorithm of the index above and hands every        *)
(* failure back to its caller as an error value, after which the index     *)
(* stays usable.                                                           *)

\* Err(e): an error value returned to the caller
Error(self, kind) == [lsh |-> self, outcome |-> "err", val |-> kind]

\* the result r of the algorithm as a Result: an abort in hashing becomes
\* DimensionMismatch, an abort on a storage error becomes Failed
AsResult(r) ==
    IF r.outcome # "panic" THEN r
    ELSE Error(r.lsh, IF r.val = "hash" THEN "DimensionMismatch" ELSE "Failed")

\* LshSql::srp, l2, mips: fault stands for a storage that cannot be set up
LshSql_srp(self, rng, fault) ==
    IF fault # 0 THEN Error(self, "Failed") ELSE Done(srp(self, rng), "unit")

LshSql_l2(self, r, rng, fault) ==
    IF fault # 0 THEN Error(self, "Failed") ELSE Done(l2(self, r, rng), "unit")

LshSql_mips(self, r, U, m, rng, fault) ==
    IF fault # 0 THEN Error(self, "Failed")
    ELSE Done(mips(self, r, U, m, rng), "unit")

LshSql_store_vec(self, v, fault) == AsResult(store_vec(self, v, fault))

LshSql_store_vecs(self, vs, fault) == AsResult(store_vecs(self, vs, fault))

LshSql_query_bucket_ids(self, v, fault) == AsResult(query_bucket_idx(self, v, fault))

LshSql_query_bucket(self, v, fault) == AsResult(query_bucket(self, v, fault))

\* LshSql::delete_vec: an absent bucket is passed over, any other storage
\* error is returned
RECURSIVE LshSql_delete_vec_from(_, _, _, _)
LshSql_delete_vec_from(self, v, i, fault) ==
    IF i > Len(self.hashers) THEN Done(self, "unit")
    ELSE IF ~hash_defined(self.hashers[i], v) THEN Error(self, "DimensionMismatch")
    ELSE LET hash == hash_vec_query(self.hashers[i], v)
             r == delete(self.hash_tables, hash, v, i, fault = i)
         IN IF r.ok
            THEN LshSql_delete_vec_from([self EXCEPT !.hash_tables = r.val],
                                        v, i + 1, fault)
            ELSE IF r.err = "NotFound"
            THEN LshSql_delete_vec_from(self, v, i + 1, fault)
            ELSE Error(self, "Failed")

LshSql_delete_vec(self, v, fault) == LshSql_delete_vec_from(self, v, 1, fault)

\* LshSql::describe: prints the tables, changes nothing
LshSql_describe(self, fault) ==
    IF fault # 0 THEN Error(self, "Failed") ELSE Done(self, "unit")

---------------------------------------------------------------------------
(* src/lsh-py/src/lib.rs: Base forwards each call to the index it holds,   *)
(* returns the error the index returns (the ? operator), and aborts when   *)
(* it holds none.                                                          *)

\* Base::_store_vec
Base_store_vec(b, self, v, fault) ==
    IF b = "Empty" THEN Panic(self, "base not initialized")
    ELSE LET r == LshSql_store_vec(self, v, fault)
         IN IF r.outcome = "err" THEN Error(r.lsh, r.val) ELSE Done(r.lsh, "unit")

\* Base::_store_vecs
Base_store_vecs(b, self, vs, fault) ==
    IF b = "Empty" THEN Panic(self, "base not initialized")
    ELSE LET r == LshSql_store_vecs(self, vs, fault)
         IN IF r.outcome = "err" THEN Error(r.lsh, r.val) ELSE Done(r.lsh, "unit")

\* Base::_query_bucket_idx
Base_query_bucket_idx(b, self, v, fault) ==
    IF b = "Empty" THEN Panic(self, "base not initialized")
    ELSE LET q == LshSql_query_bucket_ids(self, v, fault)
         IN IF q.outcome = "err" THEN Error(q.lsh, q.val) ELSE Done(q.lsh, q.val)

\* Base::_query_bucket
Base_query_bucket(b, self, v, fault) ==
    IF b = "Empty" THEN Panic(self, "base not initialized")
    ELSE LET q == LshSql_query_bucket(self, v, fault)
         IN IF q.outcome = "err" THEN Error(q.lsh, q.val) ELSE Done(q.lsh, q.val)

\* Base::_delete_vec
Base_delete_vec(b, self, v, fault) ==
    IF b = "Empty" THEN Panic(self, "base not initialized")
    ELSE LET r == LshSql_delete_vec(self, v, fault)
         IN IF r.outcome = "err" THEN Error(r.lsh, r.val) ELSE Done(r.lsh, "unit")

\* Base::_describe
Base_describe(b, self, fault) ==
    IF b = "Empty" THEN Panic(self, "base not initialized")
    ELSE LET r == LshSql_describe(self, fault)
         IN IF r.outcome = "err" THEN Error(r.lsh, r.val) ELSE Done(r.lsh, "unit")

\* LshSrp::new: the index built, or the error of srp and no object
LshSrp_new(n_projections, n_hash_tables, dim, sd, rng, fault) ==
    LshSql_srp(seed(new(n_projections, n_hash_tables, dim), sd), rng, fault)

\* LshL2::new
LshL2_new(n_projections, n_hash_tables, dim, r, sd, rng, fault) ==
    LshSql_l2(seed(new(n_projections, n_hash_tables, dim), sd), r, rng, fault)

\* LshMips::new
LshMips_new(n_projections, n_hash_tables, dim, r, U, m, sd, rng, fault) ==
    LshSql_mips(seed(new(n_projections, n_hash_tables, dim), sd), r, U, m, rng,
                fault)

---------------------------------------------------------------------------
(* The state machine *)

\* the index held by an empty Base, and by twin outside paired runs
NoLsh == new(0, 0, 0)

\* the record of a call: op(v) ended with outcome and returned val; vs is
\* the batch a store call was handed; the storage call of table fault
\* failed (0: none); before, wasLive and bound describe the index the call
\* found: the size of query_bucket(v), whether v was stored and not deleted
\* since, whether a hash family was selected
NoCall == [op |-> "none", v |-> <<>>, vs |-> <<>>, outcome |-> "ok",
           val |-> "unit", fault |-> 0, before |-> 0, wasLive |-> FALSE,
           bound |-> FALSE]

\* an index is bound once a family-selection operation built its hashers
IsBound(self) == Len(self.hashers) > 0

\* the table whose storage call fails in this call (0: none)
Faults(self) == IF storage = "failing" THEN 0 .. Len(self.hashers) ELSE {0}

\* whether the first storage call of a call made through the binding
\* fails (1) or none does (0); the binding's index always sits on the
\* durable table, and storage says whether its calls fail in this run
PyFaults == IF storage = "failing" THEN {0, 1} ELSE {0}

\* the size of the result query_bucket(v) would return, -1 if it aborts
ResultSize(self, v) ==
    LET q == query_bucket_idx(self, v, 0)
    IN IF q.outcome = "ok" THEN Cardinality(q.val) ELSE -1

\* the record of the call op(v) that ended as r
Called(op, v, fault, before, r) ==
    [op |-> op, v |-> v, vs |-> <<>>, outcome |-> r.outcome, val |-> r.val,
     fault |-> fault, before |-> before, wasLive |-> v \in live,
     bound |-> IsBound(lsh) /\ base # "Empty"]

\* n more vectors may be stored: put appends one entry per table
Room(self, n) ==
    Len(self.hash_tables.vec_store) + n * self.n_hash_tables
        <= MaxStores * self.n_hash_tables

NoneStored == [v \in Vecs |-> 0]

InitCore ==
    /\ \E np \in Projs, nt \in 1 .. MaxTables , dim \in Dims :
           lsh = new(np, nt, dim)
    /\ H \in Families
    /\ base = "None"

InitPy ==
    /\ lsh = NoLsh
    /\ H = "none"
    /\ base = "Empty"

InitRest ==
    /\ twin = NoLsh
    /\ status = "running"
    /\ last = NoCall
    /\ live = {}
    /\ nstored = NoneStored

Init ==
    /\ storage = "sound"
    /\ InitCore \/ InitPy
    /\ InitRest

InitFault ==
    /\ storage = "failing"
    /\ InitCore \/ InitPy
    /\ InitRest

Running == status = "running"
Core == Running /\ base = "None"
Py == Running /\ base # "None"

\* the effect of a completed or aborted call on the process
Finish(r) == status' = IF r.outcome = "panic" THEN "panicked" ELSE "running"

\* a family selection returns a fresh index: nothing is stored in it;
\* before records how many entries the point store of the receiver held
Selected(self, op) ==
    /\ lsh' = self
    /\ last' = [NoCall EXCEPT !.op = op,
                              !.before = Len(lsh.hash_tables.vec_store)]
    /\ live' = {}
    /\ nstored' = NoneStored
    /\ UNCHANGED <<twin, storage, status>>

\* lsh.seed(sd)
Seed ==
    /\ Core
    /\ \E sd \in Seeds :
        /\ lsh' = seed(lsh, sd)
        /\ last' = [NoCall EXCEPT !.op = "seed", !.bound = IsBound(lsh)]
    /\ UNCHANGED <<H, twin, base, storage, status, live, nstored>>

\* lsh.srp()
Srp ==
    /\ Core /\ H = "srp"
    /\ \E rng \in create_rng(lsh._seed) : Selected(srp(lsh, rng), "srp")
    /\ UNCHANGED <<H, base>>

\* lsh.l2(r)
L2 ==
    /\ Core /\ H = "l2"
    /\ \E rng \in create_rng(lsh._seed), r \in Rs : Selected(l2(lsh, r, rng), "l2")
    /\ UNCHANGED <<H, base>>

\* lsh.mips(r, U, m)
Mips ==
    /\ Core /\ H = "mips"
    /\ \E rng \in create_rng(lsh._seed), r \in Rs, U \in Us, m \in Ms :
           Selected(mips(lsh, r, U, m, rng), "mips")
    /\ UNCHANGED <<H, base>>

\* the number of elements of a batch that a store call ending as r filed
\* in every table before it ended
StoredCount(r) ==
    IF IsBound(lsh)
    THEN (Len(r.lsh.hash_tables.vec_store) - Len(lsh.hash_tables.vec_store))
             \div lsh.n_hash_tables
    ELSE 0

\* the effect of a store call that ended as r
Stored(op, v, vs, fault, r) ==
    /\ lsh' = r.lsh
    /\ last' = [Called(op, v, fault, 0, r) EXCEPT !.vs = vs]
    /\ Finish(r)
    /\ live' = live \cup {vs[j] : j \in 1 .. StoredCount(r)}
    /\ nstored' = [w \in Vecs |->
                     nstored[w]
                         + Cardinality({j \in 1 .. StoredCount(r) : vs[j] = w})]
    /\ UNCHANGED <<H, twin, base, storage>>

\* the effect of a query call that ended as r
Queried(op, v, fault, r) ==
    /\ lsh' = r.lsh
    /\ last' = Called(op, v, fault, ResultSize(lsh, v), r)
    /\ Finish(r)
    /\ UNCHANGED <<H, twin, base, storage, live, nstored>>

\* the effect of a describe call that ended as r
Described(fault, r) ==
    /\ lsh' = r.lsh
    /\ last' = Called("describe", <<>>, fault, 0, r)
    /\ Finish(r)
    /\ UNCHANGED <<H, twin, base, storage, live, nstored>>

\* the effect of a delete call that ended as r
Deleted(op, v, fault, r) ==
    /\ lsh' = r.lsh
    /\ last' = Called(op, v, fault, ResultSize(lsh, v), r)
    /\ Finish(r)
    /\ live' = IF r.outcome = "ok" THEN live \ {v} ELSE live
    /\ UNCHANGED <<H, twin, base, storage, nstored>>

\* lsh.store_vec(v)
StoreVec ==
    /\ Core /\ Room(lsh, 1)
    /\ \E v \in Vecs, fault \in Faults(lsh) :
           Stored("store_vec", v, <<v>>, fault, store_vec(lsh, v, fault))

\* lsh.store_vecs(vs)
StoreVecs ==
    /\ Core
    /\ \E n \in 0 .. 2 : \E vs \in [1 .. n -> Vecs], fault \in Faults(lsh) :
        /\ Room(lsh, n)
        /\ Stored("store_vecs", <<>>, vs, fault, store_vecs(lsh, vs, fault))

\* lsh.query_bucket(v)
QueryBucket ==
    /\ Core
    /\ \E v \in Vecs, fault \in Faults(lsh) :
           Queried("query_bucket", v, fault, query_bucket(lsh, v, fault))

\* lsh.delete_vec(v)
DeleteVec ==
    /\ Core
    /\ \E v \in Vecs, fault \in Faults(lsh) :
           Deleted("delete_vec", v, fault, delete_vec(lsh, v, fault))

\* the effect of a binding constructor that ended as r: the object holding
\* the index it built, or the error and no object
Constructed(r, family, b, fault) ==
    IF r.outcome = "ok"
    THEN /\ Selected(r.lsh, family)
         /\ H' = family
         /\ base' = b
    ELSE /\ last' = [NoCall EXCEPT !.op = family, !.outcome = r.outcome,
                                   !.val = r.val, !.fault = fault]
         /\ UNCHANGED <<lsh, H, twin, base, storage, status, live, nstored>>

\* LshSrp(n_projections, n_hash_tables, dim, seed)
PyLshSrp ==
    /\ Py /\ base = "Empty"
    /\ \E np \in Projs, nt \in 1 .. MaxTables, dim \in Dims, sd \in Seeds :
       \E rng \in create_rng(sd), fault \in PyFaults :
           Constructed(LshSrp_new(np, nt, dim, sd, rng, fault), "srp", "Srp", fault)

\* LshL2(n_projections, n_hash_tables, dim, r, seed)
PyLshL2 ==
    /\ Py /\ base = "Empty"
    /\ \E np \in Projs, nt \in 1 .. MaxTables, dim \in Dims, sd \in Seeds, r \in Rs :
       \E rng \in create_rng(sd), fault \in PyFaults :
           Constructed(LshL2_new(np, nt, dim, r, sd, rng, fault), "l2", "L2", fault)

\* LshMips(n_projections, n_hash_tables, dim, r, U, m, seed)
PyLshMips ==
    /\ Py /\ base = "Empty"
    /\ \E np \in Projs, nt \in 1 .. MaxTables, dim \in Dims, sd \in Seeds :
       \E r \in Rs, U \in Us, m \in Ms, rng \in create_rng(sd), fault \in PyFaults :
           Constructed(LshMips_new(np, nt, dim, r, U, m, sd, rng, fault),
                       "mips", "Mips", fault)

\* base.store_vec(v)
PyStoreVec ==
    /\ Py /\ Room(lsh, 1)
    /\ \E v \in Vecs, fault \in PyFaults :
           Stored("store_vec", v, <<v>>, fault, Base_store_vec(base, lsh, v, fault))

\* base.store_vecs(vs)
PyStoreVecs ==
    /\ Py
    /\ \E n \in 0 .. 2 : \E vs \in [1 .. n -> Vecs], fault \in PyFaults :
        /\ Room(lsh, n)
        /\ Stored("store_vecs", <<>>, vs, fault, Base_store_vecs(base, lsh, vs, fault))

\* base.query_bucket(v)
PyQueryBucket ==
    /\ Py
    /\ \E v \in Vecs, fault \in PyFaults :
           Queried("query_bucket", v, fault, Base_query_bucket(base, lsh, v, fault))

\* base.query_bucket_idx(v)
PyQueryBucketIdx ==
    /\ Py
    /\ \E v \in Vecs, fault \in PyFaults :
           Queried("query_bucket_idx", v, fault, Base_query_bucket_idx(base, lsh, v, fault))

\* base.delete_vec(v)
PyDeleteVec ==
    /\ Py
    /\ \E v \in Vecs, fault \in PyFaults :
           Deleted("delete_vec", v, fault, Base_delete_vec(base, lsh, v, fault))

\* base.describe()
PyDescribe ==
    /\ Py
    /\ \E fault \in PyFaults : Described(fault, Base_describe(base, lsh, fault))

Next ==
    \/ Seed \/ Srp \/ L2 \/ Mips
    \/ StoreVec \/ StoreVecs \/ QueryBucket \/ DeleteVec
    \/ PyLshSrp \/ PyLshL2 \/ PyLshMips
    \/ PyStoreVec \/ PyStoreVecs \/ PyQueryBucket \/ PyQueryBucketIdx
    \/ PyDeleteVec \/ PyDescribe

Spec == Init /\ [][Next]_vars

SpecFault == InitFault /\ [][Next]_vars

---------------------------------------------------------------------------
(* Paired runs: two indices, lsh and twin, are built with the same         *)
(* n_projections, dim and family parameters, twin with as many tables as   *)
(* lsh or one more, and receive the same calls.                            *)

InitPair ==
    /\ storage = "sound"
    /\ \E np \in Projs, nt \in 1 .. MaxTables, dim \in Dims :
       \E more \in {0, 1} :
           /\ nt + more <= MaxTables
           /\ lsh = new(np, nt, dim)
           /\ twin = new(np, nt + more, dim)
    /\ H \in Families
    /\ base = "None"
    /\ status = "running"
    /\ last = NoCall
    /\ live = {}
    /\ nstored = NoneStored

Unbound == Running /\ ~IsBound(lsh) /\ ~IsBound(twin)
Bound == Running /\ IsBound(lsh) /\ IsBound(twin)

\* the record of a call made on both indices, val the two results
CalledBoth(op, v, r1, r2) ==
    [NoCall EXCEPT !.op = op, !.v = v, !.val = <<r1.val, r2.val>>,
                   !.outcome = IF r1.outcome = "ok" THEN r2.outcome ELSE r1.outcome,
                   !.bound = IsBound(lsh) /\ IsBound(twin)]

\* the effect of a call that ended as r1 on lsh and as r2 on twin
DoneBoth(op, v, r1, r2) ==
    /\ lsh' = r1.lsh
    /\ twin' = r2.lsh
    /\ last' = CalledBoth(op, v, r1, r2)
    /\ status' = IF r1.outcome = "ok" /\ r2.outcome = "ok"
                 THEN "running" ELSE "panicked"
    /\ UNCHANGED <<H, base, storage, live, nstored>>

\* lsh.seed(sd1); twin.seed(sd2)
PairSeed ==
    /\ Unbound
    /\ \E sd1 \in Seeds, sd2 \in Seeds :
           DoneBoth("seed", <<>>, Done(seed(lsh, sd1), "unit"),
                    Done(seed(twin, sd2), "unit"))

\* lsh.srp(); twin.srp()
PairSrp ==
    /\ Unbound /\ H = "srp"
    /\ \E rng1 \in create_rng(lsh._seed), rng2 \in create_rng(twin._seed) :
           DoneBoth("srp", <<>>, Done(srp(lsh, rng1), "unit"),
                    Done(srp(twin, rng2), "unit"))

\* lsh.l2(r); twin.l2(r)
PairL2 ==
    /\ Unbound /\ H = "l2"
    /\ \E rng1 \in create_rng(lsh._seed), rng2 \in create_rng(twin._seed) :
       \E r \in Rs :
           DoneBoth("l2", <<>>, Done(l2(lsh, r, rng1), "unit"),
                    Done(l2(twin, r, rng2), "unit"))

\* lsh.mips(r, U, m); twin.mips(r, U, m)
PairMips ==
    /\ Unbound /\ H = "mips"
    /\ \E rng1 \in create_rng(lsh._seed), rng2 \in create_rng(twin._seed) :
       \E r \in Rs, U \in Us, m \in Ms :
           DoneBoth("mips", <<>>, Done(mips(lsh, r, U, m, rng1), "unit"),
                    Done(mips(twin, r, U, m, rng2), "unit"))

\* lsh.store_vec(v); twin.store_vec(v)
PairStoreVec ==
    /\ Bound /\ Room(lsh, 1) /\ Room(twin, 1)
    /\ \E v \in Vecs :
           DoneBoth("store_vec", v, store_vec(lsh, v, 0), store_vec(twin, v, 0))

\* lsh.delete_vec(v); twin.delete_vec(v)
PairDeleteVec ==
    /\ Bound
    /\ \E v \in Vecs :
           DoneBoth("delete_vec", v, delete_vec(lsh, v, 0), delete_vec(twin, v, 0))

\* lsh.query_bucket(v); twin.query_bucket(v), as index sets
PairQueryBucket ==
    /\ Bound
    /\ \E v \in Vecs :
           DoneBoth("query_bucket_idx", v, query_bucket_idx(lsh, v, 0),
                    query_bucket_idx(twin, v, 0))

NextPair ==
    \/ PairSeed \/ PairSrp \/ PairL2 \/ PairMips
    \/ PairStoreVec \/ PairDeleteVec \/ PairQueryBucket

SpecPair == InitPair /\ [][NextPair]_vars

---------------------------------------------------------------------------
(* Properties *)

VectorOps == {"store_vec", "query_bucket", "query_bucket_idx", "delete_vec"}
IndexOps == VectorOps \cup {"store_vecs", "describe"}
QueryOps == {"query_bucket", "query_bucket_idx"}

\* the vectors query_bucket(v) returns on the index as it is now
Returned(self, v) == Range(query_bucket(self, v, 0).val)

\* C1 as stated: for every hash family, a vector that was stored and not
\* deleted since is among the vectors query_bucket returns for it.
C1_ContainmentAllFamilies ==
    IsBound(lsh) => \A v \in live : v \in Returned(lsh, v)

\* C1, amended: for the symmetric families (L2 and SRP), a vector that was
\* stored and not deleted since is among the vectors query_bucket returns
\* for it.
C1_ContainmentSymmetric ==
    (IsBound(lsh) /\ H \in {"srp", "l2"}) => \A v \in live : v \in Returned(lsh, v)

\* a query for a stored vector, after a delete of another one, returned it
C1_Witness ==
    /\ H \in {"srp", "l2"}
    /\ last.op = "query_bucket" /\ last.outcome = "ok"
    /\ last.v \in live
    /\ last.v \in Range(last.val)
    /\ \E w \in GoodVecs : nstored[w] > 0 /\ w \notin live

\* C2: after delete_vec(v), v having been stored exactly once and not
\* deleted before, query_bucket(v) holds no vector equal to v and is
\* strictly smaller than it was before the delete.
C2_DeleteRemovesMembership ==
    (/\ last.op = "delete_vec" /\ last.outcome = "ok" /\ last.bound
     /\ nstored[last.v] = 1 /\ last.wasLive)
    => /\ last.v \notin Returned(lsh, last.v)
       /\ ResultSize(lsh, last.v) < last.before

\* C3: a call on an index for which no hash family was selected ends in
\* an error value (neither normally nor in an abort).
C3_UnboundRejected ==
    (last.op \in IndexOps /\ ~last.bound) => last.outcome = "err"

\* C4: store_vec and query_bucket return a failure value, and do not
\* abort, when a storage put or a storage query fails with an error other
\* than NotFound.
C4_BackendFaultSurfaced ==
    (/\ last.op \in {"store_vec", "query_bucket", "query_bucket_idx"}
     /\ last.bound /\ last.v \in GoodVecs /\ last.fault # 0)
    => last.outcome = "err"

\* C5: delete_vec reports a failure to its caller when the storage delete
\* of some table fails with an error other than NotFound.
C5_DeleteFaultReported ==
    (/\ last.op = "delete_vec" /\ last.bound
     /\ last.v \in GoodVecs /\ last.fault # 0)
    => last.outcome = "err"

\* the tables that hold a bucket for the query-side signature of v
TablesWithBucket(self, v) ==
    {i \in 1 .. Len(self.hashers) :
        hash_vec_query(self.hashers[i], v) \in DOMAIN self.hash_tables.hash_tables[i]}

\* the indices some bucket of some table holds
IndicesInBuckets(self) ==
    UNION {UNION {self.hash_tables.hash_tables[i][sig] :
                     sig \in DOMAIN self.hash_tables.hash_tables[i]} :
              i \in 1 .. Len(self.hashers)}

\* the indices in the buckets of v over the tables that hold one
FoundIndices(self, v) ==
    UNION {self.hash_tables.hash_tables[i][hash_vec_query(self.hashers[i], v)] :
              i \in TablesWithBucket(self, v)}

\* the global indices a recorded query returned
ResultIndices(call) ==
    IF call.op = "query_bucket" THEN DOMAIN call.val ELSE call.val

\* C6: a query does not fail for a bucket that is absent: it returns the
\* indices of the buckets that are found in the other tables, and an
\* empty result when no table holds a bucket for the vector, as on an
\* index with no stored vectors.
C6_AbsentBucketsAbsorbed ==
    (/\ last.op \in QueryOps /\ last.v \in GoodVecs /\ base # "Empty"
     /\ last.fault = 0)
    => /\ last.outcome = "ok"
       /\ ResultIndices(last) = FoundIndices(lsh, last.v)
       /\ TablesWithBucket(lsh, last.v) = {} => ResultIndices(last) = {}
       /\ Len(lsh.hash_tables.vec_store) = 0 => ResultIndices(last) = {}

\* a query found the bucket in one table and none in another, and returned
\* the indices of the bucket that was found
C6_Witness ==
    /\ last.op \in QueryOps /\ last.outcome = "ok" /\ last.bound
    /\ last.v \in GoodVecs
    /\ TablesWithBucket(lsh, last.v) # {}
    /\ TablesWithBucket(lsh, last.v) # 1 .. Len(lsh.hashers)
    /\ ResultIndices(last) # {}

\* C7: store_vec, query_bucket and delete_vec fail with DimensionMismatch
\* on a vector whose length is not dim, and leave the index as it was.
C7_DimensionMismatchRejected ==
    [][(last'.op \in VectorOps /\ last'.bound /\ Len(last'.v) # lsh.dim)
          => (/\ last'.outcome = "err"
              /\ last'.val = "DimensionMismatch"
              /\ lsh' = lsh)]_vars

\* C10: query_bucket and query_bucket_idx leave the index (hashers, every
\* table's buckets, the global point store, the seed) as it was.
C10_QueriesReadOnly ==
    [][last'.op \in QueryOps => (lsh' = lsh /\ H' = H /\ base' = base)]_vars

\* a query on an index that holds vectors met a bucket in one table, none
\* in another, and returned indices
C10_Witness ==
    /\ last.op \in QueryOps /\ last.outcome = "ok" /\ last.bound
    /\ ResultIndices(last) # {}
    /\ TablesWithBucket(lsh, last.v) # 1 .. Len(lsh.hashers)
    /\ Len(lsh.hash_tables.vec_store) > 0
    /\ lsh._seed # 0

\* the hasher a family-selection operation builds for table i from the
\* i-th draw of the generator seeded with sd
HasherOfDraw(self, i, sd) ==
    LET h == self.hashers[i]
    IN CASE h.kind = "srp" ->
                SignRandomProjections_new(self.n_projections, self.dim, Gen(sd, i))
         [] h.kind = "l2" ->
                L2_new(self.dim, h.r, self.n_projections, Gen(sd, i))
         [] h.kind = "mips" ->
                MIPS_new(self.dim, h.hasher.r, h.U, h.m, self.n_projections,
                         Gen(sd, i))

\* both indices are bound and were seeded with the same nonzero seed
SameSeed ==
    /\ IsBound(lsh) /\ IsBound(twin)
    /\ lsh._seed = twin._seed /\ lsh._seed # 0

\* C8: two indices built with identical parameters and the same nonzero
\* seed hold, table by table, the hasher of the i-th draw of the generator
\* seeded with it, and after the same store_vec and delete_vec calls
\* return the same indices for every query vector.
C8_SeedDeterminism ==
    (SameSeed /\ lsh.n_hash_tables = twin.n_hash_tables)
    => /\ \A i \in 1 .. lsh.n_hash_tables :
            /\ lsh.hashers[i] = HasherOfDraw(lsh, i, lsh._seed)
            /\ twin.hashers[i] = lsh.hashers[i]
       /\ lsh.hash_tables = twin.hash_tables
       /\ \A v \in GoodVecs :
            query_bucket_idx(lsh, v, 0).val = query_bucket_idx(twin, v, 0).val

\* two equally seeded indices of two tables each were queried after a
\* store and a delete, and returned indices
C8_Witness ==
    /\ SameSeed /\ lsh.n_hash_tables = twin.n_hash_tables
    /\ lsh.n_hash_tables > 1
    /\ last.op = "query_bucket_idx" /\ last.outcome = "ok"
    /\ last.val[1] # {} /\ last.val[1] = last.val[2]
    /\ IndicesInBuckets(lsh) # 0 .. Len(lsh.hash_tables.vec_store) - 1
    /\ Len(lsh.hash_tables.vec_store) > lsh.n_hash_tables

\* C9: of two equally seeded indices that differ by one table and
\* received the same calls, the one with more tables returns, for every
\* query vector, every index the other returns.
C9_UnionMonotone ==
    (SameSeed /\ twin.n_hash_tables = lsh.n_hash_tables + 1)
    => \A v \in GoodVecs :
        /\ query_bucket_idx(lsh, v, 0).val \subseteq query_bucket_idx(twin, v, 0).val
        /\ Cardinality(query_bucket_idx(lsh, v, 0).val)
               <= Cardinality(query_bucket_idx(twin, v, 0).val)

\* the tables of self in which some bucket holds the index idx
TablesHolding(self, idx) ==
    {i \in 1 .. self.n_hash_tables :
        \E sig \in DOMAIN self.hash_tables.hash_tables[i] :
            idx \in self.hash_tables.hash_tables[i][sig]}

\* C11: a store_vec on a bound index grows the global point store by
\* exactly one entry, whatever n_hash_tables is, and the index of that
\* entry is in a bucket of every table afterwards.
C11_OneEntryPerStore ==
    [][(last'.op = "store_vec" /\ last'.outcome = "ok" /\ last'.bound)
          => (/\ Len(lsh'.hash_tables.vec_store)
                     = Len(lsh.hash_tables.vec_store) + 1
              /\ TablesHolding(lsh', Len(lsh.hash_tables.vec_store))
                     = 1 .. lsh.n_hash_tables)]_vars

\* v was stored twice, no other vector was stored, and every index handed
\* out is still in a bucket: nothing was deleted
StoredTwiceOnly(v) ==
    /\ nstored[v] = 2
    /\ \A w \in Vecs \ {v} : nstored[w] = 0
    /\ IndicesInBuckets(lsh) = 0 .. Len(lsh.hash_tables.vec_store) - 1

\* C12: a query for v made after store_vec(v) was called exactly twice
\* on an empty index returns exactly two distinct indices.
C12_TwoStoresTwoIndices ==
    (/\ last.op \in QueryOps /\ last.outcome = "ok" /\ last.bound
     /\ last.v \in GoodVecs /\ StoredTwiceOnly(last.v))
    => Cardinality(ResultIndices(last)) = 2

\* hasher h was built with the dim and the n_projections of self
HasherShape(self, h) ==
    LET rows == CASE h.kind = "srp" -> h.hyperplanes
                  [] h.kind = "l2" -> h.a
                  [] h.kind = "mips" -> h.hasher.a
        width == IF h.kind = "mips" THEN self.dim + h.m ELSE self.dim
    IN /\ h.dim = self.dim
       /\ Len(rows) = self.n_projections
       /\ \A p \in 1 .. Len(rows) : Len(rows[p]) = width
       /\ h.kind = "l2" => Len(h.b) = self.n_projections
       /\ h.kind = "mips" => (/\ h.hasher.dim = width
                              /\ Len(h.hasher.b) = self.n_projections)

\* as many hashers as storage tables as n_hash_tables, all of one shape
Structure(self) ==
    /\ Len(self.hashers) = self.n_hash_tables
    /\ Len(self.hash_tables.hash_tables) = self.n_hash_tables
    /\ self.hash_tables.n_hash_tables = self.n_hash_tables
    /\ \A i \in 1 .. Len(self.hashers) : HasherShape(self, self.hashers[i])

\* C13: every state a step leads to on an index with a hash family has
\* as many hashers as storage tables as n_hash_tables, every hasher built
\* with the index's dim and n_projections; a store, query, delete or
\* describe call changes none of hashers, n_hash_tables, n_projections, dim.
C13_StructureKept ==
    [][IsBound(lsh')
          => (/\ Structure(lsh')
              /\ last'.op \in IndexOps
                    => (/\ lsh'.hashers = lsh.hashers
                        /\ lsh'.n_hash_tables = lsh.n_hash_tables
                        /\ lsh'.n_projections = lsh.n_projections
                        /\ lsh'.dim = lsh.dim))]_vars

\* an index of two tables and two projections holds vectors after a
\* store and a delete, with the structure its family selection gave it
C13_Witness ==
    /\ IsBound(lsh) /\ Structure(lsh)
    /\ lsh.n_hash_tables > 1 /\ lsh.n_projections > 1
    /\ last.op = "delete_vec" /\ last.outcome = "ok"
    /\ Len(lsh.hash_tables.vec_store) > 0
    /\ IndicesInBuckets(lsh) # 0 .. Len(lsh.hash_tables.vec_store) - 1

\* store_vec called on the first n elements of vs, one call after the other
RECURSIVE StoreEach(_, _, _)
StoreEach(self, vs, n) ==
    IF n = 0 THEN Done(self, "unit")
    ELSE LET p == StoreEach(self, vs, n - 1)
         IN IF p.outcome = "ok" THEN store_vec(p.lsh, vs[n], 0) ELSE p

\* the entries of the point store of self from position from + 1 on
Appended(self, from) ==
    SubSeq(self.hash_tables.vec_store, from + 1, Len(self.hash_tables.vec_store))

\* C14: store_vecs(vs) leaves the index (point store contents and order,
\* every table's buckets) as store_vec called on each element of vs in
\* order leaves it, and the entries it appends are those of vs in input
\* order, the j-th element before the (j+1)-th.
C14_StoreVecsIsStoreVecEach ==
    [][(last'.op = "store_vecs" /\ last'.outcome = "ok" /\ last'.bound)
          => LET vs == last'.vs
                 each == StoreEach(lsh, vs, Len(vs))
                 added == Appended(lsh', Len(lsh.hash_tables.vec_store))
             IN /\ each.outcome = "ok"
                /\ lsh' = each.lsh
                /\ Len(added) = Len(vs) * lsh.n_hash_tables
                /\ \A k \in 1 .. Len(added) :
                       added[k] = vs[((k - 1) \div lsh.n_hash_tables) + 1]]_vars

\* a store_vecs call stored two different vectors on an index of more
\* than one table
C14_Witness ==
    /\ last.op = "store_vecs" /\ last.outcome = "ok" /\ last.bound
    /\ Len(last.vs) = 2 /\ last.vs[1] # last.vs[2]
    /\ lsh.n_hash_tables > 1
    /\ Len(lsh.hash_tables.vec_store) = 2 * lsh.n_hash_tables

\* the indices table i of self holds that table i of after no longer
\* holds in the same bucket
RemovedFrom(self, after, i) ==
    UNION {self.hash_tables.hash_tables[i][sig]
               \ (IF sig \in DOMAIN after.hash_tables.hash_tables[i]
                  THEN after.hash_tables.hash_tables[i][sig] ELSE {}) :
              sig \in DOMAIN self.hash_tables.hash_tables[i]}

\* C15: delete_vec(v) leaves the global point store as it was, takes out
\* of the buckets only indices whose stored vector equals v, so that a
\* query for another stored vector w that returned w still returns it, and
\* succeeds without changing any bucket when v was never stored.
C15_DeleteOnlyRemovesV ==
    [][(last'.op = "delete_vec" /\ last'.v \in GoodVecs /\ base # "Empty")
          => LET v == last'.v
             IN /\ lsh'.hash_tables.vec_store = lsh.hash_tables.vec_store
                /\ \A i \in 1 .. Len(lsh.hashers) :
                     \A idx \in RemovedFrom(lsh, lsh', i) :
                         idx_to_datapoint(lsh.hash_tables, idx) = v
                /\ \A w \in live \ {v} :
                       w \in Returned(lsh, w) => w \in Returned(lsh', w)
                /\ (nstored[v] = 0 /\ last'.fault = 0)
                       => (/\ last'.outcome = "ok"
                           /\ lsh'.hash_tables = lsh.hash_tables)]_vars

\* a delete took an index out of a bucket that still holds the index of
\* another vector
C15_Witness ==
    /\ last.op = "delete_vec" /\ last.outcome = "ok" /\ last.bound
    /\ last.wasLive
    /\ IndicesInBuckets(lsh) # 0 .. Len(lsh.hash_tables.vec_store) - 1
    /\ \E w \in live : /\ w # last.v
                       /\ w \in Returned(lsh, w)
                       /\ FoundIndices(lsh, w) = FoundIndices(lsh, last.v)

SelectOps == {"srp", "l2", "mips"}

\* the recorded call made on self, directly or through the binding
Replay(self, call) ==
    IF base = "None"
    THEN CASE call.op = "store_vec" -> store_vec(self, call.v, call.fault)
           [] call.op = "store_vecs" -> store_vecs(self, call.vs, call.fault)
           [] call.op = "query_bucket" -> query_bucket(self, call.v, call.fault)
           [] call.op = "delete_vec" -> delete_vec(self, call.v, call.fault)
    ELSE CASE call.op = "store_vec" -> Base_store_vec(base, self, call.v, call.fault)
           [] call.op = "store_vecs" ->
                  Base_store_vecs(base, self, call.vs, call.fault)
           [] call.op = "query_bucket" ->
                  Base_query_bucket(base, self, call.v, call.fault)
           [] call.op = "query_bucket_idx" ->
                  Base_query_bucket_idx(base, self, call.v, call.fault)
           [] call.op = "delete_vec" ->
                  Base_delete_vec(base, self, call.v, call.fault)
           [] call.op = "describe" -> Base_describe(base, self, call.fault)

\* the hashers of self are the draws of a generator started from rng
HashersOfDraws(self, rng) ==
    \A i \in 1 .. Len(self.hashers) :
        self.hashers[i] = HasherOfDraw(self, i, rng)

\* C16: seed only records the seed and leaves hashers and tables alone;
\* a family selection samples the hashers from the seed current at that
\* step, from some entropy state when that seed is 0; and a store, query
\* or delete call on a bound index ends as it would had any other seed
\* been recorded before it.
C16_SeedOnlyAtSelection ==
    [][/\ last'.op = "seed" => \E sd \in Seeds : lsh' = [lsh EXCEPT !._seed = sd]
       /\ last'.op \in SelectOps
             => (/\ base = "None" => lsh'._seed = lsh._seed
                 /\ \E rng \in create_rng(lsh'._seed) : HashersOfDraws(lsh', rng))
       /\ (last'.op \in IndexOps /\ last'.bound)
             => \A sd \in Seeds \ {lsh._seed} :
                    Replay(seed(lsh, sd), last')
                        = [lsh |-> seed(lsh', sd), outcome |-> last'.outcome,
                           val |-> last'.val]]_vars

\* the hashers were sampled from an entropy state under seed 0, another
\* seed was recorded afterwards, and a query on the index returned indices
C16_Witness ==
    /\ IsBound(lsh) /\ lsh._seed # 0
    /\ ~HashersOfDraws(lsh, lsh._seed)
    /\ \E e \in Entropy : HashersOfDraws(lsh, e)
    /\ last.op \in QueryOps /\ last.outcome = "ok"
    /\ ResultIndices(last) # {}

\* the buckets of table i of self that hold the index idx
BucketsHolding(self, i, idx) ==
    {sig \in DOMAIN self.hash_tables.hash_tables[i] :
        idx \in self.hash_tables.hash_tables[i][sig]}

\* C17: after completed store_vec, store_vecs and delete_vec calls on a
\* bound index, every global point index is in exactly one bucket of every
\* table, or in no bucket of any table.
C17_AllOrNothingMembership ==
    (IsBound(lsh) /\ status = "running")
    => \A idx \in 0 .. Len(lsh.hash_tables.vec_store) - 1 :
          \/ \A i \in 1 .. lsh.n_hash_tables :
                 Cardinality(BucketsHolding(lsh, i, idx)) = 1
          \/ \A i \in 1 .. lsh.n_hash_tables : BucketsHolding(lsh, i, idx) = {}

\* C18: srp, l2 and mips return an index whose storage tables and global
\* point store are empty, whatever the receiver held, with the
\* n_projections, n_hash_tables, dim and seed of the receiver; a query on
\* it returns nothing for every vector.
C18_SelectionYieldsEmptyIndex ==
    [][last'.op \in SelectOps
          => (/\ lsh'.hash_tables.vec_store = <<>>
              /\ \A i \in 1 .. lsh'.n_hash_tables :
                     DOMAIN lsh'.hash_tables.hash_tables[i] = {}
              /\ base = "None"
                    => (/\ lsh'.n_projections = lsh.n_projections
                        /\ lsh'.n_hash_tables = lsh.n_hash_tables
                        /\ lsh'.dim = lsh.dim
                        /\ lsh'._seed = lsh._seed)
              /\ \A v \in GoodVecs :
                     query_bucket(lsh', v, 0) = Done(lsh', << >>))]_vars

\* a family was selected on an index that held stored vectors, and the
\* index returned holds none
C18_Witness ==
    /\ last.op \in SelectOps /\ last.before > 0
    /\ IsBound(lsh) /\ lsh.n_hash_tables > 1
    /\ lsh.hash_tables.vec_store = <<>>
    /\ lsh._seed # 0

====
